---- MODULE Spec2Model ----
(***************************************************************************)
(* Model of src/etl.py: a one-shot extract / transform / load job that     *)
(* reads road elements from the Overpass API and inserts them into the     *)
(* PostGIS table "roads".                                                  *)
(*                                                                         *)
(* Python values are tagged records: a missing dict key is Absent, None is *)
(* PyNone, and strings are sequences of one-character strings so that      *)
(* f-string formatting, concatenation and parsing are computed.            *)
(***************************************************************************)
EXTENDS Integers, Sequences, FiniteSets, TLC

VARIABLES
    pc,          \* position of the process inside main and its callees
    raw_data,    \* main: value returned by extract
    main_roads,  \* main: value returned by transform
    exc,         \* exception propagating out of main ("none" when there is none)
    exit_status, \* exit status of the process (-1 while it is running)
    log,         \* messages logged by this process
    conns,       \* connections to the database opened and not closed
    load_calls,  \* number of calls of load made by this process
    tableExists, \* database: table roads exists (committed)
    store,       \* database: committed rows of table roads
    txn,         \* database: rows as seen by load's open transaction
    runs         \* number of times the job has been started

vars == <<pc, raw_data, main_roads, exc, exit_status, log, conns, load_calls,
          tableExists, store, txn, runs>>

----------------------------------------------------------------------------
(* Bounds of the model.                                                    *)

\* longest "elements" list of a raw result
MaxElements == 2
\* longest "geometry" list of a raw element
MaxPoints == 2
\* number of times the job is started against the same database
MaxRuns == 2

----------------------------------------------------------------------------
(* Python values.                                                          *)

Absent == [k |-> "absent"]
PyNone == [k |-> "None"]
PyInt(n) == [k |-> "int", v |-> n]
PyFloat(t) == [k |-> "float", v |-> t]  \* t counts tenths: PyFloat(105) is 10.5
PyStr(s) == [k |-> "str", v |-> s]
PyList(l) == [k |-> "list", v |-> l]
PyDict(d) == [k |-> "dict", v |-> d]
PyTuple(t) == [k |-> "tuple", v |-> t]
Raised(e) == [k |-> "raise", v |-> e]

IsStr(x) == x.k = "str"
IsRaised(x) == x.k = "raise"

\* dict.get(key): a missing key reads as None
Get(x) == IF x = Absent THEN PyNone ELSE x
\* dict.get(key, default)
GetDefault(x, default) == IF x = Absent THEN default ELSE x
\* truth value of a dict, a list or None, as tested by "if x:"
Truthy(x) ==
    CASE x.k = "list" -> Len(x.v) > 0
      [] x.k = "dict" -> \E f \in DOMAIN x.v : x.v[f] # Absent
      [] x.k = "str" -> Len(x.v) > 0
      [] x.k = "int" -> x.v # 0
      [] x.k = "float" -> x.v # 0
      [] OTHER -> FALSE

Digit(d) == <<"0", "1", "2", "3", "4", "5", "6", "7", "8", "9">>[d + 1]
Abs(n) == IF n < 0 THEN -n ELSE n
Sign(n) == IF n < 0 THEN <<"-">> ELSE <<>>

RECURSIVE NatStr(_)
NatStr(n) == IF n < 10 THEN <<Digit(n)>> ELSE NatStr(n \div 10) \o <<Digit(n % 10)>>

\* str() of an int
IntStr(n) == Sign(n) \o NatStr(Abs(n))
\* str() of a float with one decimal: 10.0 -> "10.0", -0.5 -> "-0.5"
FloatStr(t) == Sign(t) \o NatStr(Abs(t) \div 10) \o <<".">> \o NatStr(Abs(t) % 10)

\* str(x), also what an f-string field {x} produces
Str(x) ==
    CASE x.k = "str" -> x.v
      [] x.k = "int" -> IntStr(x.v)
      [] x.k = "float" -> FloatStr(x.v)
      [] OTHER -> <<"N", "o", "n", "e">>

RECURSIVE Join(_, _)
\* sep.join(parts)
Join(sep, parts) ==
    IF Len(parts) = 0 THEN <<>>
    ELSE IF Len(parts) = 1 THEN parts[1]
    ELSE parts[1] \o sep \o Join(sep, Tail(parts))

----------------------------------------------------------------------------
(* transform                                                               *)

\* mutant of PointText: latitude written first
PointTextLatLon(point) ==
    IF point.lon = Absent \/ point.lat = Absent THEN Raised("KeyError")
    ELSE PyStr(Str(point.lat) \o <<" ">> \o Str(point.lon))

\* f"{point['lon']} {point['lat']}": KeyError when a key is missing
PointText(point) ==
    IF point.lon = Absent \/ point.lat = Absent THEN Raised("KeyError")
    ELSE PyStr(Str(point.lon) \o <<" ">> \o Str(point.lat))

\* f"LINESTRING({coords})" with coords = ", ".join(...)
LineStringWkt(geometry) ==
    LET texts == [i \in 1..Len(geometry) |-> PointText(geometry[i])]
    IN  IF \E i \in 1..Len(texts) : IsRaised(texts[i]) THEN Raised("KeyError")
        ELSE PyStr(<<"L", "I", "N", "E", "S", "T", "R", "I", "N", "G", "(">>
                   \o Join(<<",", " ">>, [i \in 1..Len(texts) |-> texts[i].v])
                   \o <<")">>)

\* mutant of LinestringOf: "if geometry is not None" in place of "if geometry"
LinestringOfNotNone(geometry) ==
    IF geometry # PyNone THEN LineStringWkt(geometry.v) ELSE PyNone

\* if geometry: linestring_wkt = f"LINESTRING(...)" else: linestring_wkt = None
LinestringOf(geometry) ==
    IF Truthy(geometry) THEN LineStringWkt(geometry.v) ELSE PyNone

\* mutant of RoadName: the fallback lacks the identifier
RoadNameNoId(tags, road_id) ==
    GetDefault(tags.v.name, PyStr(<<"r", "o", "a", "d", "_">>))

\* tags.get("name", f"road_{road_id}")
RoadName(tags, road_id) ==
    GetDefault(tags.v.name, PyStr(<<"r", "o", "a", "d", "_">> \o road_id.v))

\* tags.get("highway", "unknown")
RoadType(tags) ==
    GetDefault(tags.v.highway, PyStr(<<"u", "n", "k", "n", "o", "w", "n">>))

\* the body of transform's loop for one element: the tuple appended, or the
\* exception raised
TransformElement(element) ==
    LET road_id == PyStr(Str(Get(element.id)))
        tags == GetDefault(element.tags, PyDict([name |-> Absent, highway |-> Absent]))
        geometry == Get(element.geometry)
        linestring_wkt == LinestringOf(geometry)
    IN  IF tags.k # "dict" THEN Raised("AttributeError")
        ELSE IF IsRaised(linestring_wkt) THEN linestring_wkt
        ELSE PyTuple(<<road_id, RoadName(tags, road_id), RoadType(tags), linestring_wkt>>)

\* transform(data): the list of tuples, or the exception of the first element
\* that raises
transform(data) ==
    LET elements == GetDefault(data.v.elements, PyList(<<>>)).v
        out == [i \in 1..Len(elements) |-> TransformElement(elements[i])]
        bad == {i \in 1..Len(out) : IsRaised(out[i])}
    IN  IF bad = {} THEN PyList(out)
        ELSE out[CHOOSE i \in bad : \A j \in bad : i <= j]

----------------------------------------------------------------------------
(* The database: table roads and the statements the job sends to it.       *)

DigitVal(c) == CHOOSE d \in 0..9 : Digit(d) = c

RECURSIVE ParseNat(_)
ParseNat(s) ==
    IF Len(s) = 0 THEN 0
    ELSE ParseNat(SubSeq(s, 1, Len(s) - 1)) * 10 + DigitVal(s[Len(s)])

\* index of the first occurrence of sep in s at or after position i, 0 if none
RECURSIVE Find(_, _, _)
Find(s, sep, i) ==
    IF i + Len(sep) - 1 > Len(s) THEN 0
    ELSE IF SubSeq(s, i, i + Len(sep) - 1) = sep THEN i
    ELSE Find(s, sep, i + 1)

RECURSIVE Split(_, _)
Split(s, sep) ==
    LET i == Find(s, sep, 1)
    IN  IF i = 0 THEN <<s>>
        ELSE <<SubSeq(s, 1, i - 1)>> \o Split(SubSeq(s, i + Len(sep), Len(s)), sep)

\* a decimal number with one fractional digit, in tenths
ParseNumber(s) ==
    LET body == IF s[1] = "-" THEN Tail(s) ELSE s
        dot == Find(body, <<".">>, 1)
        n == ParseNat(SubSeq(body, 1, dot - 1)) * 10
             + ParseNat(SubSeq(body, dot + 1, Len(body)))
    IN  IF s[1] = "-" THEN -n ELSE n

\* the points "x y, x y, ..." between "LINESTRING(" and ")"
WktEntries(wkt) == Split(SubSeq(wkt, 12, Len(wkt) - 1), <<",", " ">>)

\* ST_GeomFromText(%s, 4326): NULL for NULL, else the line's points <<x, y>>
ST_GeomFromText(wkt) ==
    IF wkt = PyNone THEN PyNone
    ELSE LET entries == WktEntries(wkt.v)
         IN  PyList([i \in 1..Len(entries) |->
                       LET xy == Split(entries[i], <<" ">>)
                       IN  <<ParseNumber(xy[1]), ParseNumber(xy[2])>>])

Row(rec) ==
    [road_id |-> rec.v[1].v, road_name |-> rec.v[2], road_type |-> rec.v[3],
     geom |-> ST_GeomFromText(rec.v[4])]

\* road_name TEXT NOT NULL, road_type TEXT NOT NULL
ViolatesNotNull(rec) == rec.v[2] = PyNone \/ rec.v[3] = PyNone

\* mutant of InsertRoad: ON CONFLICT (road_id) DO UPDATE
InsertRoadUpsert(rows, rec) ==
    {r \in rows : r.road_id # rec.v[1].v} \cup {Row(rec)}

\* INSERT ... ON CONFLICT (road_id) DO NOTHING
InsertRoad(rows, rec) ==
    IF \E r \in rows : r.road_id = rec.v[1].v THEN rows ELSE rows \cup {Row(rec)}

RECURSIVE ExecuteBatch(_, _)
\* execute_batch(cur, INSERT_ROAD_QUERY, transformed_data): the statements run
\* in list order inside the connection's transaction
ExecuteBatch(rows, records) ==
    IF Len(records) = 0 THEN rows
    ELSE ExecuteBatch(InsertRoad(rows, records[1]), Tail(records))

----------------------------------------------------------------------------
(* Inputs: what the Overpass API may answer.                               *)

SeqsUpTo(S, n) == UNION {[1..m -> S] : m \in 0..n}

MainSt == PyStr(<<"M", "a", "i", "n", " ", "S", "t">>)
SideSt == PyStr(<<"S", "i", "d", "e", " ", "S", "t">>)
Residential == PyStr(<<"r", "e", "s", "i", "d", "e", "n", "t", "i", "a", "l">>)
EmptyStr == PyStr(<<>>)

Tags(name, highway) == PyDict([name |-> name, highway |-> highway])
Element(id, tags, geometry) == [id |-> id, tags |-> tags, geometry |-> geometry]
Point(lon, lat) == [lon |-> lon, lat |-> lat]

P1 == Point(PyFloat(100), PyFloat(200))
P2 == Point(PyFloat(110), PyFloat(210))
P3 == Point(PyFloat(-5), PyFloat(602))
NoLon == Point(Absent, PyFloat(200))
NoLat == Point(PyFloat(100), Absent)

Points == {P1, P2}

TagValues ==
    {Absent, PyNone}
    \cup {Tags(Absent, Absent), Tags(EmptyStr, EmptyStr), Tags(MainSt, Residential),
          Tags(MainSt, Absent), Tags(Absent, Residential), Tags(PyNone, PyNone)}

Geometries ==
    {Absent, PyNone, PyList(<<NoLon>>), PyList(<<P1, NoLat>>), PyList(<<P3>>),
     PyList(<<P3, P1>>)}
    \cup {PyList(g) : g \in SeqsUpTo(Points, MaxPoints)}

\* elements given to transform: every identifier, every tag mapping and every
\* geometry occurs
TransformElements ==
    {Element(id, Absent, Absent) : id \in {Absent, PyInt(7), PyInt(42)}}
    \cup {Element(PyInt(7), t, PyNone) : t \in TagValues}
    \cup {Element(PyInt(42), Tags(MainSt, Residential), g) : g \in Geometries}

\* a raw result: a dict with or without the key "elements"
Raw(elements) == PyDict([elements |-> elements, version |-> PyFloat(6)])
EmptyDict == PyDict([elements |-> Absent, version |-> Absent])

TransformInputs ==
    {Raw(Absent)} \cup {Raw(PyList(l)) : l \in SeqsUpTo(TransformElements, MaxElements)}

\* elements met by the whole job: two identifiers, the same identifier with
\* different values, a null name and a null tag mapping
PipelineElements ==
    { Element(PyInt(1), Tags(MainSt, Residential), PyList(<<P1, P2>>)),
      Element(PyInt(1), Tags(SideSt, Absent), Absent),
      Element(PyInt(2), Tags(Absent, Absent), PyList(<<P2, P1>>)),
      Element(PyInt(2), Tags(PyNone, Residential), Absent),
      Element(PyInt(1), PyNone, Absent) }

Responses ==
    {EmptyDict, Raw(Absent)}
    \cup {Raw(PyList(l)) : l \in SeqsUpTo(PipelineElements, MaxElements)}

----------------------------------------------------------------------------
(* The job.                                                                *)

Unset == [k |-> "unset"]

Init ==
    /\ pc = "create_connect"
    /\ raw_data = Unset
    /\ main_roads = Unset
    /\ exc = "none"
    /\ exit_status = -1
    /\ log = {}
    /\ conns = {}
    /\ load_calls = 0
    /\ tableExists = FALSE
    /\ store = {}
    /\ txn = {}
    /\ runs = 1

\* an except clause that logs and returns without conn.close(): the
\* connection stays open unless the interpreter happens to finalize it
Leaked(c) == {conns, conns \ {c}}

\* create_table_if_not_exists: psycopg2.connect(...)
create_connect ==
    /\ pc = "create_connect"
    /\ \/ /\ conns' = conns \cup {"create"}
          /\ pc' = "create_execute"
          /\ UNCHANGED log
       \/ /\ log' = log \cup {"table_error"}
          /\ pc' = "extract"
          /\ UNCHANGED conns
    /\ UNCHANGED <<raw_data, main_roads, exc, exit_status, load_calls,
                   tableExists, store, txn, runs>>

\* create_table_if_not_exists: cur.execute(CREATE_ROADS_TABLE_QUERY)
create_execute ==
    /\ pc = "create_execute"
    /\ \/ /\ pc' = "create_commit"
          /\ UNCHANGED <<log, conns>>
       \/ /\ log' = log \cup {"table_error"}
          /\ pc' = "extract"
          /\ conns' \in Leaked("create")
    /\ UNCHANGED <<raw_data, main_roads, exc, exit_status, load_calls,
                   tableExists, store, txn, runs>>

\* create_table_if_not_exists: conn.commit()
create_commit ==
    /\ pc = "create_commit"
    /\ \/ /\ tableExists' = TRUE
          /\ pc' = "create_close"
          /\ UNCHANGED <<log, conns>>
       \/ /\ log' = log \cup {"table_error"}
          /\ pc' = "extract"
          /\ conns' \in Leaked("create")
          /\ UNCHANGED tableExists
    /\ UNCHANGED <<raw_data, main_roads, exc, exit_status, load_calls,
                   store, txn, runs>>

\* create_table_if_not_exists: cur.close(); conn.close(); logger.info(...)
create_close ==
    /\ pc = "create_close"
    /\ conns' = conns \ {"create"}
    /\ log' = log \cup {"table_ok"}
    /\ pc' = "extract"
    /\ UNCHANGED <<raw_data, main_roads, exc, exit_status, load_calls,
                   tableExists, store, txn, runs>>

\* raw_data = extract(): the response, or {} when api.get raises
extract ==
    /\ pc = "extract"
    /\ \/ /\ raw_data' \in Responses
          /\ log' = log \cup {"fetch_ok"}
       \/ /\ raw_data' = EmptyDict
          /\ log' = log \cup {"fetch_error"}
    /\ pc' = "main_if"
    /\ UNCHANGED <<main_roads, exc, exit_status, conns, load_calls,
                   tableExists, store, txn, runs>>

\* mutant of main_transform: load is called without the test "if main_roads"
main_transform_always_load ==
    /\ pc = "main_if"
    /\ Truthy(raw_data)
    /\ LET result == transform(raw_data)
       IN  IF IsRaised(result)
           THEN /\ exc' = result.v
                /\ pc' = "exit"
                /\ UNCHANGED <<main_roads, log, load_calls>>
           ELSE /\ main_roads' = result
                /\ log' = log \cup {"transformed"}
                /\ pc' = "load_connect"
                /\ load_calls' = load_calls + 1
                /\ UNCHANGED exc
    /\ UNCHANGED <<raw_data, exit_status, conns, tableExists, store, txn, runs>>

\* mutant of main_transform: an empty record list logs "No data to process."
main_transform_warns ==
    /\ pc = "main_if"
    /\ Truthy(raw_data)
    /\ LET result == transform(raw_data)
       IN  IF IsRaised(result)
           THEN /\ exc' = result.v
                /\ pc' = "exit"
                /\ UNCHANGED <<main_roads, log, load_calls>>
           ELSE /\ main_roads' = result
                /\ log' = log \cup {"transformed"}
                             \cup (IF Truthy(result) THEN {} ELSE {"no_data"})
                /\ pc' = IF Truthy(result) THEN "load_connect" ELSE "exit"
                /\ load_calls' = IF Truthy(result) THEN load_calls + 1 ELSE load_calls
                /\ UNCHANGED exc
    /\ UNCHANGED <<raw_data, exit_status, conns, tableExists, store, txn, runs>>

\* main: if raw_data: main_roads = transform(raw_data); if main_roads: load(main_roads)
main_transform ==
    /\ pc = "main_if"
    /\ Truthy(raw_data)
    /\ LET result == transform(raw_data)
       IN  IF IsRaised(result)
           THEN /\ exc' = result.v
                /\ pc' = "exit"
                /\ UNCHANGED <<main_roads, log, load_calls>>
           ELSE /\ main_roads' = result
                /\ log' = log \cup {"transformed"}
                /\ pc' = IF Truthy(result) THEN "load_connect" ELSE "exit"
                /\ load_calls' = IF Truthy(result) THEN load_calls + 1 ELSE load_calls
                /\ UNCHANGED exc
    /\ UNCHANGED <<raw_data, exit_status, conns, tableExists, store, txn, runs>>

\* main: else: logger.warning("No data to process.")
main_no_data ==
    /\ pc = "main_if"
    /\ ~Truthy(raw_data)
    /\ log' = log \cup {"no_data"}
    /\ pc' = "exit"
    /\ UNCHANGED <<raw_data, main_roads, exc, exit_status, conns, load_calls,
                   tableExists, store, txn, runs>>

\* load: psycopg2.connect(...)
load_connect ==
    /\ pc = "load_connect"
    /\ \/ /\ conns' = conns \cup {"load"}
          /\ txn' = store
          /\ pc' = "load_execute"
          /\ UNCHANGED log
       \/ /\ log' = log \cup {"load_error"}
          /\ pc' = "exit"
          /\ UNCHANGED <<conns, txn>>
    /\ UNCHANGED <<raw_data, main_roads, exc, exit_status, load_calls,
                   tableExists, store, runs>>

\* load: execute_batch(cur, INSERT_ROAD_QUERY, transformed_data)
load_execute ==
    /\ pc = "load_execute"
    /\ \/ /\ tableExists
          /\ \A i \in 1..Len(main_roads.v) : ~ViolatesNotNull(main_roads.v[i])
          /\ txn' = ExecuteBatch(txn, main_roads.v)
          /\ pc' = "load_commit"
          /\ UNCHANGED <<log, conns>>
       \/ /\ log' = log \cup {"load_error"}
          /\ pc' = "exit"
          /\ conns' \in Leaked("load")
          /\ txn' = {}
    /\ UNCHANGED <<raw_data, main_roads, exc, exit_status, load_calls,
                   tableExists, store, runs>>

\* load: conn.commit()
load_commit ==
    /\ pc = "load_commit"
    /\ \/ /\ store' = txn
          /\ pc' = "load_close"
          /\ UNCHANGED <<log, conns>>
       \/ /\ log' = log \cup {"load_error"}
          /\ pc' = "exit"
          /\ conns' \in Leaked("load")
          /\ UNCHANGED store
    /\ txn' = {}
    /\ UNCHANGED <<raw_data, main_roads, exc, exit_status, load_calls,
                   tableExists, runs>>

\* load: cur.close(); conn.close(); logger.info(...)
load_close ==
    /\ pc = "load_close"
    /\ conns' = conns \ {"load"}
    /\ log' = log \cup {"loaded"}
    /\ pc' = "exit"
    /\ UNCHANGED <<raw_data, main_roads, exc, exit_status, load_calls,
                   tableExists, store, txn, runs>>

\* the process ends: status 0 when main returned, 1 when an exception left it
exit ==
    /\ pc = "exit"
    /\ exit_status' = IF exc = "none" THEN 0 ELSE 1
    /\ pc' = "done"
    /\ UNCHANGED <<raw_data, main_roads, exc, log, conns, load_calls,
                   tableExists, store, txn, runs>>

\* the job is started again against the same database
start ==
    /\ pc = "done"
    /\ runs < MaxRuns
    /\ runs' = runs + 1
    /\ pc' = "create_connect"
    /\ raw_data' = Unset
    /\ main_roads' = Unset
    /\ exc' = "none"
    /\ exit_status' = -1
    /\ log' = {}
    /\ conns' = {}
    /\ load_calls' = 0
    /\ txn' = {}
    /\ UNCHANGED <<tableExists, store>>

Next ==
    \/ create_connect \/ create_execute \/ create_commit \/ create_close
    \/ extract \/ main_transform \/ main_no_data
    \/ load_connect \/ load_execute \/ load_commit \/ load_close
    \/ exit \/ start

Spec == Init /\ [][Next]_vars

\* transform alone, applied by main to every raw result of TransformInputs
InitTransform ==
    /\ pc = "main_if"
    /\ raw_data \in TransformInputs
    /\ main_roads = Unset
    /\ exc = "none"
    /\ exit_status = -1
    /\ log = {}
    /\ conns = {}
    /\ load_calls = 0
    /\ tableExists = FALSE
    /\ store = {}
    /\ txn = {}
    /\ runs = 1

NextTransform == main_transform

SpecTransform == InitTransform /\ [][NextTransform]_vars

----------------------------------------------------------------------------
(* Properties of transform, checked under SpecTransform.                   *)

\* the element list transform iterates
RawElements ==
    IF raw_data.k # "dict" \/ raw_data.v.elements = Absent THEN <<>>
    ELSE raw_data.v.elements.v

\* transform has returned a list
Transformed == main_roads.k = "list"

\* the tag value of an element, Absent when there is no tag mapping or no such tag
NameTag(e) == IF e.tags.k = "dict" THEN e.tags.v.name ELSE Absent
HighwayTag(e) == IF e.tags.k = "dict" THEN e.tags.v.highway ELSE Absent

\* the string form of an element's identifier
IdText(e) == IF e.id = Absent THEN <<"N", "o", "n", "e">> ELSE IntStr(e.id.v)

Road_(text) == PyStr(<<"r", "o", "a", "d", "_">> \o text)
Unknown == PyStr(<<"u", "n", "k", "n", "o", "w", "n">>)

\* C4: once main has called transform, transform has returned one record per
\* element of the raw result, in the elements' order, the i-th record carrying
\* the string form of the i-th identifier, whatever is missing or malformed in
\* the elements.
C4_NoElementDropped ==
    pc # "main_if" =>
        /\ exc = "none"
        /\ Transformed
        /\ Len(main_roads.v) = Len(RawElements)
        /\ \A i \in 1..Len(RawElements) :
               main_roads.v[i].v[1] = PyStr(IdText(RawElements[i]))

\* C5: no record returned by transform has an empty road_name or an empty
\* road_type.
C5_NeverEmpty ==
    Transformed =>
        \A i \in 1..Len(main_roads.v) :
            /\ main_roads.v[i].v[2] # EmptyStr
            /\ main_roads.v[i].v[3] # EmptyStr

\* C6: in every list returned by transform, a record whose element has no name
\* tag is named "road_" + identifier, a record whose element has no highway tag
\* has type "unknown", and a supplied tag value is carried unchanged.
C6_Fallbacks ==
    Transformed =>
        /\ Len(main_roads.v) = Len(RawElements)
        /\ \A i \in 1..Len(RawElements) :
               LET e == RawElements[i]
                   r == main_roads.v[i].v
               IN  /\ r[2] = IF NameTag(e) = Absent THEN Road_(IdText(e)) ELSE NameTag(e)
                   /\ r[3] = IF HighwayTag(e) = Absent THEN Unknown ELSE HighwayTag(e)

\* the scenario of the specification: {"id": 7, "tags": {}, "geometry": null}
\* has become ("7", "road_7", "unknown", None)
C6_Witness ==
    /\ Transformed
    /\ RawElements = <<Element(PyInt(7), Tags(Absent, Absent), PyNone)>>
    /\ main_roads.v[1] =
           PyTuple(<<PyStr(<<"7">>), PyStr(<<"r", "o", "a", "d", "_", "7">>), Unknown, PyNone>>)

\* C7: in every list returned by transform, an element whose geometry is
\* absent, null or an empty list gives the geometry None, and a geometry that
\* is present lists as many points as the raw geometry, which has at least
\* one, starting with the raw geometry's first point.
C7_GeometryAbsentOrNonEmpty ==
    Transformed =>
        /\ Len(main_roads.v) = Len(RawElements)
        /\ \A i \in 1..Len(RawElements) :
               LET g == RawElements[i].geometry
                   wkt == main_roads.v[i].v[4]
               IN  /\ g \in {Absent, PyNone, PyList(<<>>)} => wkt = PyNone
                   /\ wkt # PyNone =>
                          /\ IsStr(wkt)
                          /\ g.k = "list"
                          /\ Len(g.v) >= 1
                          /\ Len(WktEntries(wkt.v)) = Len(g.v)
                          /\ WktEntries(wkt.v)[1] =
                                 FloatStr(g.v[1].lon.v) \o <<" ">> \o FloatStr(g.v[1].lat.v)

\* one result holds a record without geometry made from an empty list and a
\* record with a geometry
C7_Witness ==
    /\ Transformed
    /\ Len(main_roads.v) = 2
    /\ RawElements[1].geometry = PyList(<<>>)
    /\ main_roads.v[1].v[4] = PyNone
    /\ RawElements[2].geometry = PyList(<<P1>>)
    /\ IsStr(main_roads.v[2].v[4])

\* C8: in every list returned by transform, a geometry that is present has one
\* entry per point of the raw geometry, and reading the text back gives the
\* raw points, longitude first, in the raw order.
C8_OrderPreserving ==
    Transformed =>
        /\ Len(main_roads.v) = Len(RawElements)
        /\ \A i \in 1..Len(RawElements) :
               LET g == RawElements[i].geometry
                   wkt == main_roads.v[i].v[4]
               IN  wkt # PyNone =>
                       /\ Len(WktEntries(wkt.v)) = Len(g.v)
                       /\ ST_GeomFromText(wkt) =
                              PyList([j \in 1..Len(g.v) |-> <<g.v[j].lon.v, g.v[j].lat.v>>])

\* the scenario of the specification: the points (10.0, 20.0), (11.0, 21.0)
\* have become "LINESTRING(10.0 20.0, 11.0 21.0)"
C8_Witness ==
    /\ Transformed
    /\ Len(main_roads.v) = 1
    /\ RawElements[1].geometry = PyList(<<P1, P2>>)
    /\ main_roads.v[1].v[4] =
           PyStr(<<"L", "I", "N", "E", "S", "T", "R", "I", "N", "G", "(",
                   "1", "0", ".", "0", " ", "2", "0", ".", "0", ",", " ",
                   "1", "1", ".", "0", " ", "2", "1", ".", "0", ")">>)

----------------------------------------------------------------------------
(* Properties of the job, checked under Spec.                              *)

InLoad == pc \in {"load_connect", "load_execute", "load_commit", "load_close"}
InCreate == pc \in {"create_connect", "create_execute", "create_commit", "create_close"}

PrimaryKey(rows) == \A r1, r2 \in rows : r1.road_id = r2.road_id => r1 = r2

\* the first record of the batch that carries the identifier
FirstWithId(records, id) ==
    records[CHOOSE i \in 1..Len(records) :
                /\ records[i].v[1].v = id
                /\ \A j \in 1..(i - 1) : records[j].v[1].v # id]

\* C1: every step leaves at most one stored row per road_id, leaves every
\* stored row as it is, and a row it adds has the values of the first record
\* of the loaded batch with that road_id.
C1_InsertIfAbsent ==
    [][ /\ PrimaryKey(store')
        /\ store \subseteq store'
        /\ \A r \in store' \ store :
               /\ Transformed
               /\ \E i \in 1..Len(main_roads.v) : main_roads.v[i].v[1].v = r.road_id
               /\ r = Row(FirstWithId(main_roads.v, r.road_id)) ]_vars

\* a later run has committed a batch holding road 1 as "Side St" while the
\* store kept road 1 as "Main St"
C1_Witness ==
    /\ pc = "load_close"
    /\ runs > 1
    /\ Len(main_roads.v) = 1
    /\ main_roads.v[1].v[1] = PyStr(<<"1">>)
    /\ main_roads.v[1].v[2] = SideSt
    /\ \E r \in store : r.road_id = <<"1">> /\ r.road_name = MainSt

\* C2: load is called at most once and only when extract returned a non-empty
\* result and transform a non-empty list; after a failed extract transform was
\* not called; with an empty or absent element list transform returned the
\* empty list and load was not called.
C2_LoadOnlyAfterNonEmpty ==
    /\ load_calls \in {0, 1}
    /\ InLoad => load_calls = 1
    /\ load_calls = 1 =>
           /\ "fetch_error" \notin log
           /\ Truthy(raw_data)
           /\ Transformed
           /\ Len(main_roads.v) > 0
    /\ "fetch_error" \in log => main_roads = Unset /\ load_calls = 0
    /\ (pc \in {"exit", "done"} /\ Truthy(raw_data) /\ RawElements = <<>>) =>
           main_roads = PyList(<<>>) /\ load_calls = 0

\* a run whose extract failed has ended without transform and without load
C2_Witness ==
    /\ pc = "done"
    /\ "fetch_error" \in log
    /\ main_roads = Unset
    /\ load_calls = 0

\* C3: no exception leaves a stage, and the process ends with status 0.
C3_AlwaysExitsZero ==
    /\ exc = "none"
    /\ pc = "done" => exit_status = 0

\* C9 as stated: a run that ends without calling load has logged "No data to
\* process." (runs ended by an exception set aside).
C9_AlwaysWarns ==
    (pc = "done" /\ exc = "none" /\ load_calls = 0) => "no_data" \in log

\* C9 as amended: a run that ends has logged "No data to process." exactly
\* when extract returned an empty result; when transform returned an empty
\* list the run ends without load and without that warning.
C9_WarnsOnlyOnEmptyExtract ==
    pc = "done" =>
        /\ "no_data" \in log <=> ~Truthy(raw_data)
        /\ main_roads = PyList(<<>>) =>
               /\ load_calls = 0
               /\ "no_data" \notin log
               /\ "transformed" \in log

\* a run has ended after transform returned an empty list for a non-empty result
C9_Witness ==
    /\ pc = "done"
    /\ raw_data = Raw(PyList(<<>>))
    /\ main_roads = PyList(<<>>)
    /\ load_calls = 0
    /\ exit_status = 0

\* C10: at most one connection is open, a stage's connection is closed when
\* the stage has returned, and none is open when the run ends.
C10_ConnectionsClosed ==
    /\ Cardinality(conns) <= 1
    /\ InCreate => conns \subseteq {"create"}
    /\ InLoad => conns \subseteq {"load"}
    /\ ~(InCreate \/ InLoad) => conns = {}

====
